---- MODULE Spec2Model ----
(***************************************************************************)
(* Reading-order reconstruction and column-aware text assembly of         *)
(* docutext (src/src/content/assembler.ts).                                *)
(*                                                                         *)
(* Numbers.  Fragment coordinates, widths and font sizes are integers.     *)
(* The code multiplies them by 0.5, 0.6, 0.15, 1.8 and 2.5 and divides a   *)
(* sum by a count; the model keeps every such comparison exact by          *)
(* clearing the denominators (lengths with an estimated width are held in  *)
(* tenths).  Indices written i, j, start, end are the code's zero-based    *)
(* indices; At(s, k) reads the k-th element of a TLA+ sequence that way.   *)
(***************************************************************************)
EXTENDS Integers, Sequences, FiniteSets, TLC

VARIABLES
    items,      \* the TextItem[] handed to the engine
    links,      \* the LinkAnnotation[] handed to assembleStructuredItems
    opts,       \* options?.stripFormPlaceholders of the call: "unset", "true" or "false"
    args,       \* the arguments of a call of shouldInsertSpace
    pc,         \* "ready", then the call that has returned ("threw" if it raised)
    lines,      \* sortTextItems: the lines after phase 3 (tagged entries)
    regions,    \* sortTextItems: what detectColumnRegions returned
    order,      \* sortTextItems: the tags i of the returned items, in order
    sorted,     \* the value sortTextItems(items) returned
    resorted,   \* the value sortTextItems(sorted) returned
    trace,      \* walkItems: its visits, in order
    out         \* the value the call returned

vars == <<items, links, opts, args, pc, lines, regions, order, sorted, resorted, trace, out>>

----------------------------------------------------------------------------
(* Generic helpers *)

Abs(n) == IF n < 0 THEN -n ELSE n

At(s, k) == s[k + 1]

\* JavaScript's  v || d  on numbers: 0 is falsy
OrElse(v, d) == IF v = 0 THEN d ELSE v

\* _textObjectId === undefined
undefined == -1

RECURSIVE Flatten(_)
Flatten(ss) == IF ss = <<>> THEN <<>> ELSE Head(ss) \o Flatten(Tail(ss))

SeqFilter(s, keep) ==
    LET RECURSIVE F(_)
        F(k) == IF k > Len(s) THEN <<>>
                ELSE IF k \in keep THEN <<s[k]>> \o F(k + 1) ELSE F(k + 1)
    IN F(1)

\* all orders of the elements of s
AllOrders(s) ==
    LET n == Len(s)
    IN { [k \in 1..n |-> s[f[k]]] :
           f \in { g \in [1..n -> 1..n] : \A a, b \in 1..n : a # b => g[a] # g[b] } }

----------------------------------------------------------------------------
(* sortTextItems, phases 1-3 *)

\* items.map((item, i) => ({ item, i }))
Tag(its) == [k \in 1..Len(its) |-> [item |-> its[k], i |-> k - 1]]

\* SortByYDesc with the operands of the comparator swapped: y ascending
SortByYAsc(tagged) ==
    LET n == Len(tagged)
        before(j, k) == \/ tagged[j].item.y < tagged[k].item.y
                        \/ tagged[j].item.y = tagged[k].item.y /\ j < k
        rank(k) == Cardinality({j \in 1..n : before(j, k)}) + 1
    IN [p \in 1..n |-> tagged[CHOOSE k \in 1..n : rank(k) = p]]

\* tagged.sort((a, b) => (b.item.y || 0) - (a.item.y || 0)) : Array.prototype.sort
\* is stable, so the element at position k lands behind every element that
\* compares smaller and every equal element that stood before it.
SortByYDesc(tagged) ==
    LET n == Len(tagged)
        before(j, k) == \/ tagged[j].item.y > tagged[k].item.y
                        \/ tagged[j].item.y = tagged[k].item.y /\ j < k
        rank(k) == Cardinality({j \in 1..n : before(j, k)}) + 1
    IN [p \in 1..n |-> tagged[CHOOSE k \in 1..n : rank(k) = p]]

\* ClusterThreshold2 with 12 as a floor: max(prev.item.fontSize, 12) * 0.5, doubled
ClusterThresholdFloor2(prev) == IF prev.item.fontSize > 12 THEN prev.item.fontSize ELSE 12

\* (prev.item.fontSize > 0 ? prev.item.fontSize : 12) * 0.5, doubled
ClusterThreshold2(prev) == IF prev.item.fontSize > 0 THEN prev.item.fontSize ELSE 12

\* yDelta > threshold
StartsNewLine(prev, cur) == 2 * Abs(cur.item.y - prev.item.y) > ClusterThreshold2(prev)

\* Phase 2: the loop over tagged[1..], then the final push
RECURSIVE ClusterFrom(_, _, _, _)
ClusterFrom(tagged, k, done, currentLine) ==
    IF k > Len(tagged) THEN
        IF Len(currentLine) > 0 THEN Append(done, currentLine) ELSE done
    ELSE
        IF StartsNewLine(currentLine[Len(currentLine)], tagged[k])
        THEN ClusterFrom(tagged, k + 1, Append(done, currentLine), <<tagged[k]>>)
        ELSE ClusterFrom(tagged, k + 1, done, Append(currentLine, tagged[k]))

\* ClusterLines without the push of the last line after the loop
ClusterLinesNoFlush(tagged) ==
    LET ls == ClusterFrom(tagged, 2, <<>>, <<tagged[1]>>)
    IN SubSeq(ls, 1, Len(ls) - 1)

ClusterLines(tagged) == ClusterFrom(tagged, 2, <<>>, <<tagged[1]>>)

\* objMinX.get(id): the least x among the line's entries of that text object
ObjMinX(line, id) ==
    LET xs == { line[k].item.x : k \in { m \in 1..Len(line) : line[m].item.objId = id } }
    IN CHOOSE x \in xs : \A z \in xs : x <= z

\* the comparator handed to line.sort
LineCompare(line, a, b) ==
    LET objA == a.item.objId
        objB == b.item.objId
    IN IF /\ objA # undefined /\ objB # undefined /\ objA # objB
          /\ 10 * Abs(ObjMinX(line, objA) - ObjMinX(line, objB)) > 1
       THEN ObjMinX(line, objA) - ObjMinX(line, objB)
       ELSE IF objA # undefined /\ objA = objB
            THEN a.i - b.i
            ELSE a.item.x - b.item.x

\* ECMAScript's "consistent comparator" for the values of one line
ConsistentComparator(line) ==
    LET E == 1..Len(line)
        c(j, k) == LineCompare(line, line[j], line[k])
    IN /\ \A j \in E : c(j, j) = 0
       /\ \A j, k \in E : (c(j, k) = 0) => (c(k, j) = 0)
       /\ \A j, k, m \in E :
            /\ (c(j, k) = 0 /\ c(k, m) = 0) => (c(j, m) = 0)
            /\ (c(j, k) < 0 /\ c(k, m) < 0) => (c(j, m) < 0)
            /\ (c(j, k) > 0 /\ c(k, m) > 0) => (c(j, m) > 0)

\* line.sort(comparator): the stable order when the comparator is consistent;
\* otherwise the order is implementation-defined (any order of the elements).
SortLine(line) ==
    LET n == Len(line)
        c(j, k) == LineCompare(line, line[j], line[k])
        before(j, k) == c(j, k) < 0 \/ (c(j, k) = 0 /\ j < k)
        rank(k) == Cardinality({j \in 1..n : before(j, k)}) + 1
    IN IF ConsistentComparator(line)
       THEN { [p \in 1..n |-> line[CHOOSE k \in 1..n : rank(k) = p]] }
       ELSE AllOrders(line)

\* Phase 3 over all lines: every combination of the lines' possible orders
RECURSIVE SortLines(_)
SortLines(ls) ==
    IF ls = <<>> THEN { <<>> }
    ELSE { <<h>> \o t : h \in SortLine(Head(ls)), t \in SortLines(Tail(ls)) }

----------------------------------------------------------------------------
(* Column-aware text flow *)

\* MIN_COLUMN_RUN one too small
MinColumnRunOfTwo == 3 - 1

MIN_COLUMN_RUN == 3
COLUMN_GAP_FACTOR == 3
MAX_GAPLESS_BRIDGE == 3

\* it.width || it.text.length * (it.fontSize || 12) * 0.6, in tenths
WidthOrEstimate10(it) ==
    IF it.width # 0 THEN 10 * it.width
    ELSE Len(it.text) * OrElse(it.fontSize, 12) * 6

\* itemRightEdge, in tenths
itemRightEdge10(entry) == 10 * entry.item.x + WidthOrEstimate10(entry.item)

\* lineIsOneSide(line, boundary) with boundary = num / den, den > 0
lineIsOneSide(line, num, den) ==
    \/ \A k \in 1..Len(line) : itemRightEdge10(line[k]) * den < 10 * num
    \/ \A k \in 1..Len(line) : line[k].item.x * den >= num

\* GapInfo | null
NoGap == [found |-> FALSE, rightX |-> 0, fontSize |-> 0]

\* the loop of findDominantColumnGap from j on; maxGap is held in tenths
RECURSIVE GapScan(_, _, _, _, _)
GapScan(line, j, minGap10, maxGap10, maxGapRightX) ==
    IF j >= Len(line) THEN [maxGap10 |-> maxGap10, rightX |-> maxGapRightX]
    ELSE LET prev == At(line, j - 1)
             curr == At(line, j).item
             gap10 == 10 * curr.x - itemRightEdge10(prev)
         IN IF gap10 > minGap10 /\ gap10 > maxGap10
            THEN GapScan(line, j + 1, minGap10, gap10, curr.x)
            ELSE GapScan(line, j + 1, minGap10, maxGap10, maxGapRightX)

findDominantColumnGap(line) ==
    IF Len(line) < 2 THEN NoGap
    ELSE LET fontSize == OrElse(line[1].item.fontSize, 12)
             r == GapScan(line, 1, 10 * fontSize * COLUMN_GAP_FACTOR, 0, 0)
         IN IF r.maxGap10 > 0
            THEN [found |-> TRUE, rightX |-> r.rightX, fontSize |-> fontSize]
            ELSE NoGap

\* the inner while of detectColumnRegions: returns j, sumRX and count at its exit
RECURSIVE GrowRegion(_, _, _, _, _, _, _)
GrowRegion(ls, gaps, tolerance, j, sumRX, count, gaplessRun) ==
    LET exit == [j |-> j, sumRX |-> sumRX, count |-> count]
    IN IF j >= Len(gaps) THEN exit
       ELSE LET g == At(gaps, j) IN
            IF g.found THEN
                IF Abs(g.rightX * count - sumRX) > tolerance * count THEN exit
                ELSE GrowRegion(ls, gaps, tolerance, j + 1, sumRX + g.rightX, count + 1, 0)
            ELSE
                IF gaplessRun >= MAX_GAPLESS_BRIDGE THEN exit
                ELSE LET yGap == Abs(At(ls, j)[1].item.y - At(ls, j - 1)[1].item.y)
                         fs == OrElse(At(ls, j - 1)[1].item.fontSize, 12)
                     IN IF 2 * yGap > 5 * fs THEN exit
                        ELSE IF ~lineIsOneSide(At(ls, j), sumRX, count) THEN exit
                        ELSE GrowRegion(ls, gaps, tolerance, j + 1, sumRX, count, gaplessRun + 1)

\* ExtendBackward that stops at line 0 instead of the previous region's end
RECURSIVE ExtendBackwardUnbounded(_, _, _, _, _, _, _, _)
ExtendBackwardUnbounded(ls, gaps, tolerance, sumRX, count, start, minStart, backGapless) ==
    IF start <= 0 THEN start
    ELSE LET prev == At(gaps, start - 1) IN
         IF prev.found THEN
             IF Abs(prev.rightX * count - sumRX) > tolerance * count THEN start
             ELSE ExtendBackwardUnbounded(ls, gaps, tolerance, sumRX, count, start - 1,
                                          minStart, 0)
         ELSE
             IF backGapless >= MAX_GAPLESS_BRIDGE THEN start
             ELSE IF ~lineIsOneSide(At(ls, start - 1), sumRX, count) THEN start
             ELSE ExtendBackwardUnbounded(ls, gaps, tolerance, sumRX, count, start - 1,
                                          minStart, backGapless + 1)

\* ExtendBackward that leaves the start at the anchor line
ExtendBackwardNever(ls, gaps, tolerance, sumRX, count, start, minStart, backGapless) == start

\* the backward extension: returns start
RECURSIVE ExtendBackward(_, _, _, _, _, _, _, _)
ExtendBackward(ls, gaps, tolerance, sumRX, count, start, minStart, backGapless) ==
    IF start <= minStart THEN start
    ELSE LET prev == At(gaps, start - 1) IN
         IF prev.found THEN
             IF Abs(prev.rightX * count - sumRX) > tolerance * count THEN start
             ELSE ExtendBackward(ls, gaps, tolerance, sumRX, count, start - 1, minStart, 0)
         ELSE
             IF backGapless >= MAX_GAPLESS_BRIDGE THEN start
             ELSE IF ~lineIsOneSide(At(ls, start - 1), sumRX, count) THEN start
             ELSE ExtendBackward(ls, gaps, tolerance, sumRX, count, start - 1, minStart,
                                 backGapless + 1)

\* the outer while of detectColumnRegions; a region's boundaryX is sumRX / count,
\* and anchor records the i at which the region was accepted
RECURSIVE DetectFrom(_, _, _, _)
DetectFrom(ls, gaps, i, found) ==
    IF i >= Len(gaps) THEN found
    ELSE IF ~At(gaps, i).found THEN DetectFrom(ls, gaps, i + 1, found)
    ELSE LET anchor == At(gaps, i)
             tolerance == anchor.fontSize * 3
             r == GrowRegion(ls, gaps, tolerance, i + 1, anchor.rightX, 1, 0)
         IN IF r.count >= MIN_COLUMN_RUN THEN
                LET minStart == IF Len(found) > 0 THEN found[Len(found)].end ELSE 0
                    start == ExtendBackward(ls, gaps, tolerance, r.sumRX, r.count,
                                            i, minStart, 0)
                IN DetectFrom(ls, gaps, r.j,
                       Append(found, [start |-> start, end |-> r.j, anchor |-> i,
                                      sumRX |-> r.sumRX, count |-> r.count]))
            ELSE DetectFrom(ls, gaps, i + 1, found)

detectColumnRegions(ls) ==
    DetectFrom(ls, [k \in 1..Len(ls) |-> findDominantColumnGap(ls[k])], 0, <<>>)

\* entry.item.x < splitX for one line of a region
IsLeftOfSplit(entry, line, region) ==
    LET lineGap == findDominantColumnGap(line)
    IN IF lineGap.found THEN entry.item.x < lineGap.rightX
       ELSE entry.item.x * region.count < region.sumRX

\* SplitPart whose right part takes x > splitX instead of everything not left
SplitPartStrict(line, region, wantLeft) ==
    LET lineGap == findDominantColumnGap(line)
        right(e) == IF lineGap.found THEN e.item.x > lineGap.rightX
                    ELSE e.item.x * region.count > region.sumRX
    IN SeqFilter(line, { k \in 1..Len(line) :
                           IF wantLeft THEN IsLeftOfSplit(line[k], line, region)
                           ELSE right(line[k]) })

\* the l or the r of one line of a region
SplitPart(line, region, wantLeft) ==
    SeqFilter(line, { k \in 1..Len(line) : IsLeftOfSplit(line[k], line, region) = wantLeft })

\* left (or right) of one region: the non-empty parts of its lines, in line order
RECURSIVE RegionParts(_, _, _, _)
RegionParts(ls, region, j, wantLeft) ==
    IF j >= region.end THEN <<>>
    ELSE LET part == SplitPart(At(ls, j), region, wantLeft)
         IN (IF Len(part) > 0 THEN <<part>> ELSE <<>>)
            \o RegionParts(ls, region, j + 1, wantLeft)

\* CopyLines that pushes each line with its fragments in reverse
RECURSIVE CopyLinesReversed(_, _, _)
CopyLinesReversed(ls, lineIdx, upTo) ==
    IF lineIdx >= upTo THEN <<>>
    ELSE << [k \in 1..Len(At(ls, lineIdx)) |->
               At(ls, lineIdx)[Len(At(ls, lineIdx)) + 1 - k]] >>
         \o CopyLinesReversed(ls, lineIdx + 1, upTo)

\* result.push(lines[lineIdx++]) while lineIdx < upTo
RECURSIVE CopyLines(_, _, _)
CopyLines(ls, lineIdx, upTo) ==
    IF lineIdx >= upTo THEN <<>>
    ELSE <<At(ls, lineIdx)>> \o CopyLines(ls, lineIdx + 1, upTo)

RECURSIVE ReorderFrom(_, _, _, _)
ReorderFrom(ls, regs, r, lineIdx) ==
    IF r > Len(regs) THEN CopyLines(ls, lineIdx, Len(ls))
    ELSE CopyLines(ls, lineIdx, regs[r].start)
         \o RegionParts(ls, regs[r], regs[r].start, TRUE)
         \o RegionParts(ls, regs[r], regs[r].start, FALSE)
         \o ReorderFrom(ls, regs, r + 1, regs[r].end)

reorderColumnRegions(ls) ==
    LET regs == detectColumnRegions(ls)
    IN IF Len(regs) = 0 THEN ls ELSE ReorderFrom(ls, regs, 1, 0)

\* what one call of sortTextItems can compute: the lines after phase 3, the
\* regions, and the tagged entries in returned order
SortOutcomes(its) ==
    IF Len(its) = 0 THEN { [lines |-> <<>>, regions |-> <<>>, entries |-> <<>>] }
    ELSE { [lines |-> ls, regions |-> detectColumnRegions(ls),
            entries |-> Flatten(reorderColumnRegions(ls))] :
              ls \in SortLines(ClusterLines(SortByYDesc(Tag(its)))) }

ItemsOf(entries) == [k \in 1..Len(entries) |-> entries[k].item]
TagsOf(entries) == [k \in 1..Len(entries) |-> entries[k].i]

\* the values sortTextItems(its) can return
sortTextItems(its) == { ItemsOf(o.entries) : o \in SortOutcomes(its) }

----------------------------------------------------------------------------
(* Text: a string is the sequence of its UTF-16 code units *)

\* [a-zA-Z_]
AnchorLetters == (65..90) \cup (97..122) \cup {95}
\* [a-zA-Z]
AsciiLetters == (65..90) \cup (97..122)
\* \d
Digits == 48..57
\* \s of a JavaScript regular expression, which is also what trim() removes
Whitespace == {9, 10, 11, 12, 13, 32, 160, 5760, 8232, 8233, 8239, 8287, 12288, 65279}
                  \cup (8192..8202)
Backslash == {92}
Newline == {10}
Blank == {32}

\* the first position from p on whose character is outside class (Len(s) + 1 if none)
RECURSIVE SpanEnd(_, _, _)
SpanEnd(s, p, class) ==
    IF p <= Len(s) /\ s[p] \in class THEN SpanEnd(s, p + 1, class) ELSE p

CharIn(s, p, class) == p <= Len(s) /\ s[p] \in class

\* \\[a-zA-Z_]+\d*\\  at p: the position after the match, 0 if it does not match
MatchSelfClosing(s, p) ==
    LET l == SpanEnd(s, p + 1, AnchorLetters)
        d == SpanEnd(s, l, Digits)
    IN IF CharIn(s, p, Backslash) /\ l > p + 1 /\ CharIn(s, d, Backslash)
       THEN d + 1 ELSE 0

\* MatchOpenAnchor without the lookahead after the digits
MatchOpenAnchorNoLookahead(s, p) ==
    LET l == SpanEnd(s, p + 1, AnchorLetters)
        d == SpanEnd(s, l, Digits)
    IN IF CharIn(s, p, Backslash) /\ l > p + 1 /\ d > l THEN d ELSE 0

\* \\[a-zA-Z_]+\d+(?=[\s\\a-zA-Z]|$)  at p
MatchOpenAnchor(s, p) ==
    LET l == SpanEnd(s, p + 1, AnchorLetters)
        d == SpanEnd(s, l, Digits)
    IN IF /\ CharIn(s, p, Backslash) /\ l > p + 1 /\ d > l
          /\ (d > Len(s) \/ s[d] \in Whitespace \cup Backslash \cup AsciiLetters)
       THEN d ELSE 0

\* " \\(?=[\s]|$)"  at p
MatchOrphanDelimiter(s, p) ==
    IF /\ CharIn(s, p, Blank) /\ CharIn(s, p + 1, Backslash)
       /\ (p + 2 > Len(s) \/ s[p + 2] \in Whitespace)
    THEN p + 2 ELSE 0

\* FORM_PLACEHOLDER_RE at p: the alternatives in their order
MatchFormPlaceholder(s, p) ==
    IF MatchSelfClosing(s, p) # 0 THEN MatchSelfClosing(s, p)
    ELSE IF MatchOpenAnchor(s, p) # 0 THEN MatchOpenAnchor(s, p)
    ELSE MatchOrphanDelimiter(s, p)

\* .replace(FORM_PLACEHOLDER_RE, '')
RECURSIVE RemoveFormPlaceholders(_, _)
RemoveFormPlaceholders(s, p) ==
    IF p > Len(s) THEN <<>>
    ELSE IF MatchFormPlaceholder(s, p) # 0
         THEN RemoveFormPlaceholders(s, MatchFormPlaceholder(s, p))
         ELSE <<s[p]>> \o RemoveFormPlaceholders(s, p + 1)

\* .replace(TRAILING_BACKSLASH_RE, '')  with  /\\(?=\s|$)/g
RemoveTrailingBackslashes(s) ==
    SeqFilter(s, { p \in 1..Len(s) :
                     ~(s[p] \in Backslash /\ (p = Len(s) \/ s[p + 1] \in Whitespace)) })

stripFormPlaceholderText(text) ==
    RemoveTrailingBackslashes(RemoveFormPlaceholders(text, 1))

\* PUA_TO_UNICODE
PUA_TO_UNICODE ==
    (61472 :> 32)   @@ (61485 :> 8722) @@ (61548 :> 8467) @@ (61550 :> 9679) @@
    (61600 :> 8364) @@ (61607 :> 167)  @@ (61608 :> 8592) @@ (61609 :> 8593) @@
    (61610 :> 8594) @@ (61611 :> 8595) @@ (61612 :> 8596) @@ (61616 :> 176)  @@
    (61617 :> 177)  @@ (61618 :> 8243) @@ (61619 :> 8805) @@ (61620 :> 215)  @@
    (61621 :> 8733) @@ (61623 :> 8226) @@ (61625 :> 8800) @@ (61626 :> 8801) @@
    (61627 :> 8776) @@ (61656 :> 216)  @@ (61664 :> 8656) @@ (61665 :> 8657) @@
    (61666 :> 8658) @@ (61667 :> 8659) @@ (61668 :> 8660)

\* PUA_RE: [\uE000-\uF8FF]
PUA == 57344..63743

\* normalizePUA that keeps the characters the table does not map
RECURSIVE normalizePUAKeepsUnmapped(_)
normalizePUAKeepsUnmapped(text) ==
    IF text = <<>> THEN <<>>
    ELSE <<IF Head(text) \in DOMAIN PUA_TO_UNICODE THEN PUA_TO_UNICODE[Head(text)]
           ELSE Head(text)>> \o normalizePUAKeepsUnmapped(Tail(text))

\* text.replace(PUA_RE, ch => mapped or '')
RECURSIVE normalizePUA(_)
normalizePUA(text) ==
    IF text = <<>> THEN <<>>
    ELSE LET ch == Head(text)
         IN (IF ch \notin PUA THEN <<ch>>
             ELSE IF ch \in DOMAIN PUA_TO_UNICODE THEN <<PUA_TO_UNICODE[ch]>>
             ELSE <<>>)
            \o normalizePUA(Tail(text))

\* .replace(/[^\S\n]+/g, ' ')
RECURSIVE CollapseBlanks(_, _)
CollapseBlanks(s, p) ==
    IF p > Len(s) THEN <<>>
    ELSE IF s[p] \in Whitespace \ Newline
         THEN <<32>> \o CollapseBlanks(s, SpanEnd(s, p, Whitespace \ Newline))
         ELSE <<s[p]>> \o CollapseBlanks(s, p + 1)

\* .replace(/ +\n/g, '\n')
RECURSIVE DropBlanksBeforeNewline(_, _)
DropBlanksBeforeNewline(s, p) ==
    IF p > Len(s) THEN <<>>
    ELSE IF s[p] \in Blank /\ CharIn(s, SpanEnd(s, p, Blank), Newline)
         THEN <<10>> \o DropBlanksBeforeNewline(s, SpanEnd(s, p, Blank) + 1)
         ELSE <<s[p]>> \o DropBlanksBeforeNewline(s, p + 1)

\* CollapseNewlines that leaves the newlines as they are
KeepNewlines(s, p) == SubSeq(s, p, Len(s))

\* .replace(/\n{3,}/g, '\n\n')
RECURSIVE CollapseNewlines(_, _)
CollapseNewlines(s, p) ==
    IF p > Len(s) THEN <<>>
    ELSE IF s[p] \in Newline /\ SpanEnd(s, p, Newline) >= p + 3
         THEN <<10, 10>> \o CollapseNewlines(s, SpanEnd(s, p, Newline))
         ELSE <<s[p]>> \o CollapseNewlines(s, p + 1)

\* .trim()
RECURSIVE TrimEnd(_)
TrimEnd(s) ==
    IF s # <<>> /\ s[Len(s)] \in Whitespace THEN TrimEnd(SubSeq(s, 1, Len(s) - 1)) ELSE s

Trim(s) == TrimEnd(SubSeq(s, SpanEnd(s, 1, Whitespace), Len(s)))

\* isFormPlaceholderItem: the trimmed text is  ^\\[a-zA-Z_]+\d*\\?$
isFormPlaceholderItem(text) ==
    LET trimmed == Trim(text)
        l == SpanEnd(trimmed, 2, AnchorLetters)
        d == SpanEnd(trimmed, l, Digits)
    IN IF ~CharIn(trimmed, 1, Backslash) THEN FALSE
       ELSE /\ l > 2
            /\ \/ d > Len(trimmed)
               \/ d = Len(trimmed) /\ trimmed[d] \in Backslash

cleanText(text, stripFormPlaceholders) ==
    LET result == IF stripFormPlaceholders THEN stripFormPlaceholderText(text) ELSE text
    IN Trim(CollapseNewlines(DropBlanksBeforeNewline(CollapseBlanks(result, 1), 1), 1))

\* lines.join('\n')
RECURSIVE JoinLines(_)
JoinLines(ls) ==
    IF ls = <<>> THEN <<>>
    ELSE IF Len(ls) = 1 THEN ls[1]
    ELSE ls[1] \o <<10>> \o JoinLines(Tail(ls))

----------------------------------------------------------------------------
(* The walk *)

\* shouldInsertSpace that takes every width for a metric width
shouldInsertSpaceMetricOnly(xGap10, posGap, textLen, fontSize, hasMetricWidth) ==
    2 * xGap10 > 3 * fontSize

\* shouldInsertSpace; xGap is passed in tenths (xGap10), the other lengths as they are
shouldInsertSpace(xGap10, posGap, textLen, fontSize, hasMetricWidth) ==
    IF hasMetricWidth
    THEN 2 * xGap10 > 3 * fontSize
    ELSE 2 * posGap > (IF textLen > 1 THEN textLen ELSE 1) * fontSize

\* a link that is undefined
NoLink == "<undefined>"

\* FirstLinkFrom with the rectangle's edges left out
RECURSIVE FirstLinkFromStrict(_, _, _)
FirstLinkFromStrict(item, lks, k) ==
    IF k > Len(lks) THEN NoLink
    ELSE IF /\ 2 * item.x + item.width > 2 * lks[k].x1
            /\ 2 * item.x + item.width < 2 * lks[k].x2
            /\ item.y > lks[k].y1 /\ item.y < lks[k].y2
         THEN lks[k].uri
         ELSE FirstLinkFromStrict(item, lks, k + 1)

\* the loop of findLinkForItem from the k-th link on
RECURSIVE FirstLinkFrom(_, _, _)
FirstLinkFrom(item, lks, k) ==
    IF k > Len(lks) THEN NoLink
    ELSE IF /\ 2 * item.x + item.width >= 2 * lks[k].x1
            /\ 2 * item.x + item.width <= 2 * lks[k].x2
            /\ item.y >= lks[k].y1 /\ item.y <= lks[k].y2
         THEN lks[k].uri
         ELSE FirstLinkFrom(item, lks, k + 1)

findLinkForItem(item, lks) == IF Len(lks) = 0 THEN NoLink ELSE FirstLinkFrom(item, lks, 1)

\* the locals of walkItems before its loop; sorted is not empty
WalkStart(sortedItems) ==
    [lastX |-> 0, lastY |-> sortedItems[1].y,
     lastFontSize |-> OrElse(sortedItems[1].fontSize, 12),
     lastWidth10 |-> 0, lastHasMetricWidth |-> FALSE, lastTextLen |-> 0,
     hasContent |-> FALSE]

\* SignalsLineBreak with the threshold taken from the fragment's own font size
SignalsLineBreakOwnFont(w, item) ==
    2 * Abs(item.y - w.lastY) > OrElse(item.fontSize, 12) /\ w.hasContent

\* yDelta > lineThreshold && hasContent
SignalsLineBreak(w, item) == 2 * Abs(item.y - w.lastY) > w.lastFontSize /\ w.hasContent

\* yDelta > lastFontSize * 1.8
IsParagraphBreak(w, item) == 5 * Abs(item.y - w.lastY) > 9 * w.lastFontSize

\* SignalsSpace without the overlap rule xGap < -lastFontSize * 2
SignalsSpaceNoOverlap(w, item) ==
    /\ 2 * Abs(item.y - w.lastY) <= w.lastFontSize
    /\ w.hasContent
    /\ shouldInsertSpace(10 * item.x - (10 * w.lastX + w.lastWidth10), item.x - w.lastX,
                         w.lastTextLen, w.lastFontSize, w.lastHasMetricWidth)

\* the else-if branch: a space is signalled
SignalsSpace(w, item) ==
    /\ ~SignalsLineBreak(w, item)
    /\ w.hasContent
    /\ LET xGap10 == 10 * item.x - (10 * w.lastX + w.lastWidth10)
           posGap == item.x - w.lastX
       IN \/ xGap10 < -(20 * w.lastFontSize)
          \/ shouldInsertSpace(xGap10, posGap, w.lastTextLen, w.lastFontSize,
                               w.lastHasMetricWidth)

\* the assignments at the end of one iteration
WalkUpdate(w, item) ==
    LET fs == OrElse(item.fontSize, w.lastFontSize)
    IN [lastX |-> item.x, lastY |-> item.y, lastFontSize |-> fs,
        lastWidth10 |-> IF item.width # 0 THEN 10 * item.width ELSE Len(item.text) * fs * 6,
        lastHasMetricWidth |-> item.width > 0,
        lastTextLen |-> Len(item.text),
        hasContent |-> TRUE]

\* one visit of the loop: the locals it met and what it told the visitor
Visit(w, item, lks) ==
    [item |-> item, link |-> findLinkForItem(item, lks), before |-> w,
     lineBreak |-> SignalsLineBreak(w, item),
     paragraphBreak |-> SignalsLineBreak(w, item) /\ IsParagraphBreak(w, item),
     space |-> SignalsSpace(w, item)]

\* the loop of walkItems: the visits of the items whose text is not empty
RECURSIVE WalkFrom(_, _, _, _)
WalkFrom(sortedItems, k, w, lks) ==
    IF k > Len(sortedItems) THEN <<>>
    ELSE IF Len(sortedItems[k].text) = 0 THEN WalkFrom(sortedItems, k + 1, w, lks)
    ELSE <<Visit(w, sortedItems[k], lks)>>
         \o WalkFrom(sortedItems, k + 1, WalkUpdate(w, sortedItems[k]), lks)

walkItems(sortedItems, lks) == WalkFrom(sortedItems, 1, WalkStart(sortedItems), lks)

----------------------------------------------------------------------------
(* The plain-text sink *)

TextOnLineBreak(t, isParagraphBreak) ==
    [lines |-> (IF t.currentLine # <<>> THEN Append(t.lines, t.currentLine) ELSE t.lines)
               \o (IF isParagraphBreak THEN << <<>> >> ELSE <<>>),
     currentLine |-> <<>>]

TextOnSpace(t) == [t EXCEPT !.currentLine = @ \o <<32>>]

TextOnItem(t, item) == [t EXCEPT !.currentLine = @ \o normalizePUA(item.text)]

TextOnEnd(t) == IF t.currentLine # <<>> THEN Append(t.lines, t.currentLine) ELSE t.lines

\* the visitor of assembleText called for one visit
TextVisit(t, v) ==
    TextOnItem(IF v.lineBreak THEN TextOnLineBreak(t, v.paragraphBreak)
               ELSE IF v.space THEN TextOnSpace(t) ELSE t,
               v.item)

RECURSIVE TextSink(_, _, _)
TextSink(visits, k, t) ==
    IF k > Len(visits) THEN TextOnEnd(t) ELSE TextSink(visits, k + 1, TextVisit(t, visits[k]))

\* the lines array of assembleText when the walk has ended
TextLines(visits) == TextSink(visits, 1, [lines |-> <<>>, currentLine |-> <<>>])

\* the values of options?.stripFormPlaceholders
StripOptions == {"unset", "true", "false"}

\* options?.stripFormPlaceholders ?? true
StripOption(o) == o # "false"

\* assembleText on a non-empty input whose sorted order is sortedItems
assembleTextOf(sortedItems, o) ==
    cleanText(JoinLines(TextLines(walkItems(sortedItems, <<>>))), StripOption(o))

----------------------------------------------------------------------------
(* The structured sink *)

\* detectFontStyle of ./font-style.js: substring match on the lower-cased name
detectFontStyle(fontName) ==
    [bold |-> fontName \in {"Helvetica-Bold", "Times-BoldItalic"},
     italic |-> fontName \in {"Helvetica-Oblique", "Times-BoldItalic"}]

pushLine(st, isBlankAfter) ==
    [st EXCEPT
       !.result = IF st.currentText # <<>>
                  THEN Append(@, [text |-> st.currentText, spans |-> st.currentSpans,
                                  fontSize |-> st.currentFontSize, y |-> st.currentY,
                                  isBlankAfter |-> isBlankAfter])
                  ELSE @,
       !.currentSpans = <<>>,
       !.currentText = <<>>]

appendToSpans(st, rawText, fontName, link) ==
    LET text == normalizePUA(rawText)
        style == detectFontStyle(fontName)
        n == Len(st.currentSpans)
        merges == /\ n > 0
                  /\ st.currentSpans[n].bold = style.bold
                  /\ st.currentSpans[n].italic = style.italic
                  /\ st.currentSpans[n].link = link
    IN [st EXCEPT
          !.currentSpans =
              IF merges THEN [@ EXCEPT ![n].text = @ \o text]
              ELSE Append(@, [text |-> text, bold |-> style.bold, italic |-> style.italic,
                              link |-> IF link = "" THEN NoLink ELSE link]),
          !.currentText = @ \o text]

StructOnSpace(st) ==
    LET n == Len(st.currentSpans)
    IN IF n > 0
       THEN [st EXCEPT !.currentSpans[n].text = @ \o <<32>>, !.currentText = @ \o <<32>>]
       ELSE st

StructOnItem(st, item, link) ==
    LET st1 == IF st.currentText = <<>>
               THEN [st EXCEPT !.currentFontSize = item.fontSize, !.currentY = item.y]
               ELSE st
        st2 == appendToSpans(st1, item.text, item.fontName, link)
    IN [st2 EXCEPT !.currentFontSize = IF item.fontSize > @ THEN item.fontSize ELSE @]

\* the visitor of assembleStructuredItems called for one visit
StructVisit(st, v) ==
    StructOnItem(IF v.lineBreak THEN pushLine(st, v.paragraphBreak)
                 ELSE IF v.space THEN StructOnSpace(st) ELSE st,
                 v.item, v.link)

RECURSIVE StructSink(_, _, _)
StructSink(visits, k, st) ==
    IF k > Len(visits) THEN pushLine(st, FALSE).result
    ELSE StructSink(visits, k + 1, StructVisit(st, visits[k]))

\* result when the walk has ended
StructLines(visits) ==
    StructSink(visits, 1, [result |-> <<>>, currentSpans |-> <<>>, currentText |-> <<>>,
                          currentFontSize |-> 0, currentY |-> 0])

\* the result.map of assembleStructuredItems
StripStructured(result) ==
    [k \in 1..Len(result) |->
       [result[k] EXCEPT
          !.text = stripFormPlaceholderText(@),
          !.spans = [m \in 1..Len(@) |-> [@[m] EXCEPT !.text = stripFormPlaceholderText(@)]]]]

\* assembleStructuredItems on a non-empty input whose sorted order is sortedItems
assembleStructuredOf(sortedItems, lks, o) ==
    LET result == StructLines(walkItems(sortedItems, lks))
    IN IF StripOption(o) THEN StripStructured(result) ELSE result

----------------------------------------------------------------------------
(* The calls *)

Returned(v) == [threw |-> FALSE, value |-> v]
\* sorted[0].y in walkItems when sorted is empty: a TypeError
Threw == [threw |-> TRUE, value |-> <<>>]

\* assembleText(its, o), the sort having returned sortedItems
assembleText(its, sortedItems, o) ==
    IF Len(its) = 0 THEN Returned(<<>>)
    ELSE IF Len(sortedItems) = 0 THEN Threw
    ELSE Returned(assembleTextOf(sortedItems, o))

\* assembleStructuredItems without its check of items.length
assembleStructuredItemsUnguarded(its, sortedItems, lks, o) ==
    IF Len(sortedItems) = 0 THEN Threw
    ELSE Returned(assembleStructuredOf(sortedItems, lks, o))

\* assembleStructuredItems(its, lks, o), the sort having returned sortedItems
assembleStructuredItems(its, sortedItems, lks, o) ==
    IF Len(its) = 0 THEN Returned(<<>>)
    ELSE IF Len(sortedItems) = 0 THEN Threw
    ELSE Returned(assembleStructuredOf(sortedItems, lks, o))

\* the caller's array had the y-sort applied to it in place
InputSortedInPlace(its, tagged) == ItemsOf(tagged)

\* the caller's array after sortTextItems: items.map builds the fresh array
\* tagged, the sorts write to tagged and to the lines built from it, and no
\* statement assigns to items or to a field of a fragment
InputAfterSort(its, tagged) == its

TraceOf(sortedItems, lks) == IF Len(sortedItems) = 0 THEN <<>> ELSE walkItems(sortedItems, lks)

CallSortTextItems ==
    /\ pc = "ready"
    /\ \E o \in SortOutcomes(items) :
         /\ lines' = o.lines
         /\ regions' = o.regions
         /\ order' = TagsOf(o.entries)
         /\ sorted' = ItemsOf(o.entries)
    /\ items' = InputAfterSort(items, SortByYDesc(Tag(items)))
    /\ pc' = "sorted"
    /\ UNCHANGED <<links, opts, args, resorted, trace, out>>

\* sortTextItems on what the first call returned
CallSortAgain ==
    /\ pc = "sorted"
    /\ resorted' \in sortTextItems(sorted)
    /\ pc' = "resorted"
    /\ UNCHANGED <<items, links, opts, args, lines, regions, order, sorted, trace, out>>

CallAssembleText ==
    /\ pc = "ready"
    /\ \E o \in SortOutcomes(items), strip \in StripOptions :
         LET r == assembleText(items, ItemsOf(o.entries), strip)
         IN /\ opts' = strip
            /\ lines' = o.lines
            /\ regions' = o.regions
            /\ order' = TagsOf(o.entries)
            /\ sorted' = ItemsOf(o.entries)
            /\ trace' = TraceOf(ItemsOf(o.entries), <<>>)
            /\ out' = r.value
            /\ pc' = IF r.threw THEN "threw" ELSE "text"
    /\ items' = InputAfterSort(items, SortByYDesc(Tag(items)))
    /\ UNCHANGED <<links, args, resorted>>

CallAssembleStructuredItems ==
    /\ pc = "ready"
    /\ \E o \in SortOutcomes(items), strip \in StripOptions :
         LET r == assembleStructuredItems(items, ItemsOf(o.entries), links, strip)
         IN /\ opts' = strip
            /\ lines' = o.lines
            /\ regions' = o.regions
            /\ order' = TagsOf(o.entries)
            /\ sorted' = ItemsOf(o.entries)
            /\ trace' = TraceOf(ItemsOf(o.entries), links)
            /\ out' = r.value
            /\ pc' = IF r.threw THEN "threw" ELSE "structured"
    /\ items' = InputAfterSort(items, SortByYDesc(Tag(items)))
    /\ UNCHANGED <<links, args, resorted>>

CallStripFormPlaceholderText ==
    /\ pc = "string"
    /\ out' = stripFormPlaceholderText(args.text)
    /\ pc' = "stripped"
    /\ UNCHANGED <<items, links, opts, args, lines, regions, order, sorted, resorted, trace>>

CallIsFormPlaceholderItem ==
    /\ pc = "string"
    /\ out' = isFormPlaceholderItem(args.text)
    /\ pc' = "classified"
    /\ UNCHANGED <<items, links, opts, args, lines, regions, order, sorted, resorted, trace>>

CallNormalizePUA ==
    /\ pc = "string"
    /\ out' = normalizePUA(args.text)
    /\ pc' = "normalized"
    /\ UNCHANGED <<items, links, opts, args, lines, regions, order, sorted, resorted, trace>>

CallShouldInsertSpace ==
    /\ pc = "args"
    /\ out' = shouldInsertSpace(10 * args.xGap, args.posGap, args.textLen, args.fontSize,
                                args.hasMetricWidth)
    /\ pc' = "space"
    /\ UNCHANGED <<items, links, opts, args, lines, regions, order, sorted, resorted, trace>>

----------------------------------------------------------------------------
(* Inputs *)

MaxItems == 3
MaxRows == 4
MaxLongRows == 6
MaxWalkItems == 2
MaxGap == 6

SeqsUpTo(S, n) == UNION { [1..k -> S] : k \in 0..n }

\* a lower-case letter that names the position (x, y)
Glyph(x, y) == 97 + ((x + 2 * y) % 26)

TextA == <<97>>

Fragment(text, x, y, fontSize, width, objId) ==
    [text |-> text, x |-> x, y |-> y, fontSize |-> fontSize, fontName |-> "Helvetica",
     width |-> width, objId |-> objId]

\* fragments that tie or nearly tie in y, with a small or a large font
TieFragments ==
    { Fragment(TextA, x, y, fs, 0, undefined) : x \in {0, 10}, y \in {100, 95}, fs \in {2, 20} }

\* fragments of one baseline painted by up to two text objects
ObjectFragments ==
    { Fragment(TextA, x, 100, 12, 0, id) : x \in {0, 5, 10}, id \in {undefined, 1, 2} }

\* the rows of a form: their fragments at baseline y
RowShapes == {"LR", "LR2", "L", "R", "W", "BIG"}
LongRowShapes == {"LR", "LR2", "L"}

Cell(x, y, fontSize, width) == Fragment(<<Glyph(x, y)>>, x, y, fontSize, width, undefined)

Row(shape, y) ==
    CASE shape = "LR"  -> << Cell(50, y, 12, 60), Cell(350, y, 12, 60) >>
      [] shape = "LR2" -> << Cell(50, y, 12, 60), Cell(500, y, 12, 60) >>
      [] shape = "L"   -> << Cell(50, y, 12, 60) >>
      [] shape = "R"   -> << Cell(350, y, 12, 60) >>
      [] shape = "W"   -> << Cell(50, y, 12, 400) >>
      [] shape = "BIG" -> << Cell(0, y, 100, 10), Cell(400, y, 12, 10) >>

\* rows 15 apart, top row first
RECURSIVE Grid(_, _)
Grid(shapes, k) ==
    IF k > Len(shapes) THEN <<>> ELSE Row(shapes[k], 700 - 15 * (k - 1)) \o Grid(shapes, k + 1)

GridInputs ==
    { Grid(sh, 1) : sh \in SeqsUpTo(RowShapes, MaxRows) \cup SeqsUpTo(LongRowShapes, MaxLongRows) }

SortInputs ==
    SeqsUpTo(TieFragments, MaxItems) \cup SeqsUpTo(ObjectFragments, MaxItems) \cup GridInputs

\* fragments one, two or three baselines apart, with and without metric width
WalkFragments ==
    { Fragment([k \in 1..m.len |-> Glyph(x, y)], x, y, m.fontSize, m.width, undefined) :
        x \in {0, 9}, y \in {100, 93, 76},
        m \in { [len |-> 1, fontSize |-> 12,  width |-> 0],
                [len |-> 2, fontSize |-> 12,  width |-> 0],
                [len |-> 1, fontSize |-> 12,  width |-> 4],
                [len |-> 1, fontSize |-> 12,  width |-> 30],
                [len |-> 1, fontSize |-> 24,  width |-> 4],
                [len |-> 1, fontSize |-> 0,   width |-> 4],
                [len |-> 1, fontSize |-> -12, width |-> 4],
                [len |-> 0, fontSize |-> 12,  width |-> 4] } }

WalkInputs == SeqsUpTo(WalkFragments, MaxWalkItems)

\* strings over a backslash, a letter, a digit, a blank, a slash, the Symbol
\* bullet U+F0B7 and the unmapped U+E000, and the two dates of the unit tests
MaxTextLen == 5

Alphabet == {92, 100, 49, 32, 47, 61623, 57344}

\* \date14/1/2025
DateGlued == <<92, 100, 97, 116, 101, 49, 52, 47, 49, 47, 50, 48, 50, 53>>
\* \date1 4/1/2025
DateSpaced == <<92, 100, 97, 116, 101, 49, 32, 52, 47, 49, 47, 50, 48, 50, 53>>

TextInputs == SeqsUpTo(Alphabet, MaxTextLen) \cup {DateGlued, DateSpaced}

\* fragments on three baselines a paragraph apart whose text is a letter, a
\* blank, a tab, a newline or an unmapped private-use character
MaxCleanItems == 3

CleanFragments ==
    { Fragment(t, p.x, p.y, 12, 30, undefined) :
        t \in { <<97>>, <<32>>, <<9>>, <<10>>, <<57344>> },
        p \in { [x |-> 0, y |-> 100], [x |-> 40, y |-> 100], [x |-> 0, y |-> 76],
                [x |-> 0, y |-> 52] } }

CleanInputs == SeqsUpTo(CleanFragments, MaxCleanItems)

\* fragments 5 and 10 apart in y with small, usual, large, zero and negative font sizes
MaxClusterItems == 3

ClusterFragments ==
    { Fragment(<<Glyph(x, y)>>, x, y, fs, 0, undefined) :
        x \in {0}, y \in {100, 95, 90}, fs \in {0, -12, 2, 12, 20} }

ClusterInputs == SeqsUpTo(ClusterFragments, MaxClusterItems)

\* styled fragments of width 30 on two baselines a paragraph apart; U+E000 is a
\* private-use character the table does not map
MaxStyledItems == 2

UnmappedPUA == <<57344>>

Styled(text, x, y, width, fontName) ==
    [Fragment(text, x, y, 12, width, undefined) EXCEPT !.fontName = fontName]

StyledFragments ==
    { Styled(IF pua THEN UnmappedPUA ELSE <<Glyph(p.x, p.y)>>, p.x, p.y, 30, f) :
        pua \in BOOLEAN,
        p \in { [x |-> 0, y |-> 100], [x |-> 40, y |-> 100], [x |-> 0, y |-> 76] },
        f \in {"Helvetica", "Helvetica-Bold"} }

\* two halves of the anchor \s1\ that touch on one baseline, and a letter
SplitFragments ==
    { Styled(t, p.x, 100, p.width, f) :
        t \in { <<92, 115>>, <<49, 92>>, <<97>> },
        p \in { [x |-> 0, width |-> 20], [x |-> 20, width |-> 10] },
        f \in {"Helvetica", "Helvetica-Bold"} }

StyledInputs ==
    SeqsUpTo(StyledFragments, MaxStyledItems) \cup SeqsUpTo(SplitFragments, MaxStyledItems)

\* link rectangles: a tight one around the centres 15 and 55 of the upper
\* baseline, one over the left of the page, one over the page with an empty uri
LinkTight == [x1 |-> 15, y1 |-> 100, x2 |-> 55, y2 |-> 100, uri |-> "u1"]
LinkLeft == [x1 |-> 0, y1 |-> 0, x2 |-> 20, y2 |-> 200, uri |-> "u2"]
LinkNoUri == [x1 |-> 0, y1 |-> 0, x2 |-> 100, y2 |-> 200, uri |-> ""]

LinkLists ==
    { <<>>, <<LinkTight>>, <<LinkNoUri>>, <<LinkTight, LinkLeft>>, <<LinkLeft, LinkTight>>,
      <<LinkLeft, LinkNoUri>>, <<LinkNoUri, LinkTight>> }

\* malformed geometry: zero and negative font sizes, no width, text-object ids
MaxOddItems == 2
MaxOddRows == 3

OddFragments ==
    { Fragment(<<Glyph(x, y)>>, x, y, g.fontSize, g.width, id) :
        x \in {0, 400}, y \in {700, 685},
        g \in { [fontSize |-> 0, width |-> 0], [fontSize |-> -12, width |-> 0],
                [fontSize |-> 12, width |-> 10] },
        id \in {undefined, 1} }

OddRowShapes == {"LR", "ZERO", "NEG", "IDS"}

OddRow(shape, y) ==
    CASE shape = "LR"   -> << Cell(50, y, 12, 60), Cell(350, y, 12, 60) >>
      [] shape = "ZERO" -> << Cell(50, y, 0, 0), Cell(350, y, 0, 0) >>
      [] shape = "NEG"  -> << Cell(50, y, -12, 0), Cell(350, y, 12, 60) >>
      [] shape = "IDS"  -> << Fragment(<<Glyph(350, y)>>, 350, y, 12, 60, 2),
                              Fragment(<<Glyph(50, y)>>, 50, y, 12, 60, 1) >>

RECURSIVE OddGrid(_, _)
OddGrid(shapes, k) ==
    IF k > Len(shapes) THEN <<>>
    ELSE OddRow(shapes[k], 700 - 15 * (k - 1)) \o OddGrid(shapes, k + 1)

OddInputs ==
    (SeqsUpTo(OddFragments, MaxOddItems) \ {<<>>})
        \cup { OddGrid(sh, 1) : sh \in SeqsUpTo(OddRowShapes, MaxOddRows) \ {<<>>} }

\* form rows 30 apart whose right column starts at x = 350, 380 or 390; H is a
\* header row of font size 6, W a line across both columns, Lfar a left line
\* lowered by 8
MaxRegionRows == 4
MaxLongRegionRows == 7

RegionRowShapes == {"LR", "LR3", "L", "R", "W", "H", "Lfar"}
LongRegionRowShapes == {"LR", "LR4", "L"}

RegionRow(shape, y) ==
    CASE shape = "LR"   -> << Cell(50, y, 12, 60), Cell(350, y, 12, 60) >>
      [] shape = "LR3"  -> << Cell(50, y, 12, 60), Cell(380, y, 12, 60) >>
      [] shape = "LR4"  -> << Cell(50, y, 12, 60), Cell(390, y, 12, 60) >>
      [] shape = "L"    -> << Cell(50, y, 12, 60) >>
      [] shape = "R"    -> << Cell(350, y, 12, 60) >>
      [] shape = "W"    -> << Cell(50, y, 12, 400) >>
      [] shape = "H"    -> << Cell(50, y, 6, 40), Cell(350, y, 6, 40) >>
      [] shape = "Lfar" -> << Cell(50, y - 8, 12, 60) >>

RECURSIVE RegionGrid(_, _)
RegionGrid(shapes, k) ==
    IF k > Len(shapes) THEN <<>>
    ELSE RegionRow(shapes[k], 900 - 30 * (k - 1)) \o RegionGrid(shapes, k + 1)

RegionInputs ==
    { RegionGrid(sh, 1) : sh \in SeqsUpTo(RegionRowShapes, MaxRegionRows)
                              \cup SeqsUpTo(LongRegionRowShapes, MaxLongRegionRows) }

\* fragments of width 30 on three baselines, the second a line below the first
\* and the third a paragraph below the second, whose text is a letter, a blank
\* or an unmapped private-use character
MaxSinkItems == 3

SinkFragments ==
    { Fragment(t, p.x, p.y, 12, 30, undefined) :
        t \in { <<97>>, <<32>>, UnmappedPUA },
        p \in { [x |-> 0, y |-> 100], [x |-> 40, y |-> 100], [x |-> 0, y |-> 93],
                [x |-> 0, y |-> 69] } }

SinkInputs == SeqsUpTo(SinkFragments, MaxSinkItems)

SpaceArgs ==
    [xGap : (-MaxGap)..MaxGap, posGap : {0, 6, 7, 12, 13, 20}, textLen : 0..2,
     fontSize : {12, 20}, hasMetricWidth : BOOLEAN]

NoArgs == [xGap |-> 0, posGap |-> 0, textLen |-> 0, fontSize |-> 0, hasMetricWidth |-> FALSE]

InitRest ==
    /\ links = <<>>
    /\ lines = <<>>
    /\ regions = <<>>
    /\ order = <<>>
    /\ sorted = <<>>
    /\ resorted = <<>>
    /\ trace = <<>>
    /\ out = <<>>

----------------------------------------------------------------------------
(* Specifications *)

\* sortTextItems, once and again on its own result
InitSort ==
    /\ items \in SortInputs
    /\ opts = "unset"
    /\ args = NoArgs
    /\ pc = "ready"
    /\ InitRest

NextSort == CallSortTextItems \/ CallSortAgain

SpecSort == InitSort /\ [][NextSort]_vars

\* sortTextItems, assembleText and assembleStructuredItems
InitAssemble ==
    /\ items \in WalkInputs \cup GridInputs
    /\ opts = "unset"
    /\ args = NoArgs
    /\ pc = "ready"
    /\ InitRest

NextAssemble == CallSortTextItems \/ CallAssembleText \/ CallAssembleStructuredItems

SpecAssemble == InitAssemble /\ [][NextAssemble]_vars

\* shouldInsertSpace
InitSpace ==
    /\ items = <<>>
    /\ opts = "unset"
    /\ args \in SpaceArgs
    /\ pc = "args"
    /\ InitRest

NextSpace == CallShouldInsertSpace

SpecSpace == InitSpace /\ [][NextSpace]_vars

\* sortTextItems and assembleText on fragments that carry no text-object id
InitRows ==
    /\ items \in SeqsUpTo(TieFragments, MaxItems) \cup GridInputs
    /\ opts = "unset"
    /\ args = NoArgs
    /\ pc = "ready"
    /\ InitRest

NextRows == CallSortTextItems \/ CallAssembleText

SpecRows == InitRows /\ [][NextRows]_vars

\* assembleText and assembleStructuredItems on styled fragments with links
InitStyled ==
    /\ items \in StyledInputs
    /\ links \in LinkLists
    /\ opts = "unset"
    /\ args = NoArgs
    /\ pc = "ready"
    /\ lines = <<>>
    /\ regions = <<>>
    /\ order = <<>>
    /\ sorted = <<>>
    /\ resorted = <<>>
    /\ trace = <<>>
    /\ out = <<>>

NextStyled == CallAssembleText \/ CallAssembleStructuredItems

SpecStyled == InitStyled /\ [][NextStyled]_vars

\* stripFormPlaceholderText and normalizePUA on one string
InitString ==
    /\ items = <<>>
    /\ opts = "unset"
    /\ args \in { [text |-> t] : t \in TextInputs }
    /\ pc = "string"
    /\ InitRest

NextString == CallStripFormPlaceholderText \/ CallNormalizePUA

SpecString == InitString /\ [][NextString]_vars

\* isFormPlaceholderItem and stripFormPlaceholderText on one string
NextPlaceholder == CallIsFormPlaceholderItem \/ CallStripFormPlaceholderText

SpecPlaceholder == InitString /\ [][NextPlaceholder]_vars

\* sortTextItems on fragments that tie or nearly tie in y
InitOrder ==
    /\ items \in SeqsUpTo(TieFragments, MaxItems)
    /\ opts = "unset"
    /\ args = NoArgs
    /\ pc = "ready"
    /\ InitRest

NextOrder == CallSortTextItems

SpecOrder == InitOrder /\ [][NextOrder]_vars

\* assembleText on fragments that hold whitespace
InitClean ==
    /\ items \in CleanInputs
    /\ opts = "unset"
    /\ args = NoArgs
    /\ pc = "ready"
    /\ InitRest

NextClean == CallAssembleText

SpecClean == InitClean /\ [][NextClean]_vars

\* sortTextItems on fragments of one column
InitCluster ==
    /\ items \in ClusterInputs
    /\ opts = "unset"
    /\ args = NoArgs
    /\ pc = "ready"
    /\ InitRest

NextCluster == CallSortTextItems

SpecCluster == InitCluster /\ [][NextCluster]_vars

\* the three entry points on non-empty lists with malformed geometry
InitTotal ==
    /\ items \in OddInputs
    /\ opts = "unset"
    /\ args = NoArgs
    /\ pc = "ready"
    /\ InitRest

NextTotal == CallSortTextItems \/ CallAssembleText \/ CallAssembleStructuredItems

SpecTotal == InitTotal /\ [][NextTotal]_vars

\* sortTextItems on form rows
InitRegions ==
    /\ items \in RegionInputs
    /\ opts = "unset"
    /\ args = NoArgs
    /\ pc = "ready"
    /\ InitRest

NextRegions == CallSortTextItems

SpecRegions == InitRegions /\ [][NextRegions]_vars

\* assembleText and assembleStructuredItems on the same fragments
InitSinks ==
    /\ items \in SinkInputs
    /\ opts = "unset"
    /\ args = NoArgs
    /\ pc = "ready"
    /\ InitRest

NextSinks == CallAssembleText \/ CallAssembleStructuredItems

SpecSinks == InitSinks /\ [][NextSinks]_vars

\* every call on every input
Init == InitSort \/ InitAssemble \/ InitSpace \/ InitTotal \/ InitStyled \/ InitString
          \/ InitClean \/ InitCluster \/ InitRegions \/ InitSinks

Next ==
    \/ CallSortTextItems
    \/ CallSortAgain
    \/ CallAssembleText
    \/ CallAssembleStructuredItems
    \/ CallShouldInsertSpace
    \/ CallStripFormPlaceholderText
    \/ CallNormalizePUA
    \/ CallIsFormPlaceholderItem

Spec == Init /\ [][Next]_vars

----------------------------------------------------------------------------
(* Properties *)

\* a call that sorted the items has returned
HasSorted == pc \in {"sorted", "resorted", "text", "structured"}

\* the place of the fragment tagged t in the returned order
PlaceOf(t) == CHOOSE p \in 1..Len(order) : order[p] = t

\* s without its whitespace
NonBlank(s) == SeqFilter(s, { p \in 1..Len(s) : s[p] \notin Whitespace })

\* the texts of a list of fragments, one after the other
TextsOf(its) == Flatten([k \in 1..Len(its) |-> its[k].text])

\* the zero-based indices of the lines of a region
RowsOf(region) == region.start .. (region.end - 1)

\* a gap between two adjacent fragments of a line larger than 3 times the line's font size
HasQualifyingGap(line) ==
    \E k \in 1..(Len(line) - 1) :
        10 * line[k + 1].item.x - (10 * line[k].item.x + WidthOrEstimate10(line[k].item))
            > 30 * line[1].item.fontSize

\* the zero-based indices of the lines that have a qualifying gap
GapLines == { j \in 0..(Len(lines) - 1) : HasQualifyingGap(At(lines, j)) }

\* C1: sortTextItems returns a permutation of its input: as many fragments, every
\* input fragment exactly once, also when lines of column regions are split.
SortIsPermutation ==
    HasSorted =>
        /\ Len(sorted) = Len(items)
        /\ Len(order) = Len(items)
        /\ \A k \in 1..Len(items) : Cardinality({ p \in 1..Len(order) : order[p] = k - 1 }) = 1
        /\ \A p \in 1..Len(order) : sorted[p] = items[order[p] + 1]

\* C1 witness: two column regions were detected and their lines split
SortedTwoRegions ==
    /\ pc = "sorted"
    /\ Len(regions) = 2
    /\ sorted # ItemsOf(Flatten(lines))

\* C2: without text-object ids and without a column region the lines come out in
\* descending y, every line in ascending x, and assembleText prints the
\* fragments in that order.
RowFirstOrder ==
    (HasSorted /\ regions = <<>> /\ \A k \in 1..Len(items) : items[k].objId = undefined) =>
        /\ \A k \in 1..(Len(lines) - 1) :
             \A a \in 1..Len(lines[k]), b \in 1..Len(lines[k + 1]) :
                 lines[k][a].item.y > lines[k + 1][b].item.y
        /\ \A k \in 1..Len(lines) :
             \A a, b \in 1..Len(lines[k]) :
                 a < b => lines[k][a].item.x <= lines[k][b].item.x
        /\ sorted = ItemsOf(Flatten(lines))
        /\ (pc = "text") => (NonBlank(out) = TextsOf(sorted))

\* C2 witness: assembleText printed two lines, one of them of two fragments, in
\* another order than the fragments arrived
RowFirstReordered ==
    /\ pc = "text"
    /\ regions = <<>>
    /\ Len(lines) = 2
    /\ Len(lines[1]) = 2
    /\ sorted # items
    /\ lines[1][1].item.x < lines[1][2].item.x

\* C3: in every column region all left parts precede all right parts, each side
\* top to bottom, and no output line of assembleText holds fragments of the
\* left and of the right part of one row.
ColumnFirstOrder ==
    (HasSorted /\ Len(trace) = Len(sorted) /\ pc = "text") =>
        \A r \in 1..Len(regions) :
            \A j1, j2 \in RowsOf(regions[r]) :
                \A a \in 1..Len(At(lines, j1)), b \in 1..Len(At(lines, j2)) :
                    LET e1 == At(lines, j1)[a]
                        e2 == At(lines, j2)[b]
                        left1 == IsLeftOfSplit(e1, At(lines, j1), regions[r])
                        left2 == IsLeftOfSplit(e2, At(lines, j2), regions[r])
                        outputLine(p) == Cardinality({ q \in 1..p : trace[q].lineBreak })
                    IN /\ (left1 /\ ~left2) => PlaceOf(e1.i) < PlaceOf(e2.i)
                       /\ (left1 = left2 /\ j1 < j2) => PlaceOf(e1.i) < PlaceOf(e2.i)
                       /\ (left1 /\ ~left2 /\ j1 = j2)
                            => outputLine(PlaceOf(e1.i)) # outputLine(PlaceOf(e2.i))

\* C4: with fewer than 3 lines that have a qualifying gap no region is detected
\* and the lines are returned row-first; every region holds at least 3 such lines.
RegionsNeedThreeGapLines ==
    HasSorted =>
        /\ (Cardinality(GapLines) < 3) =>
               (regions = <<>> /\ sorted = ItemsOf(Flatten(lines)))
        /\ \A r \in 1..Len(regions) :
               Cardinality(GapLines \cap RowsOf(regions[r])) >= 3

\* C4 witness: two gap lines and a bridged line without a gap between them, no region
TwoGapLinesNoRegion ==
    /\ pc = "sorted"
    /\ Len(lines) = 3
    /\ GapLines = {0, 2}
    /\ regions = <<>>

\* C5: sorting the sorted fragments again returns them in the same order
SortIsIdempotent == (pc = "resorted") => (resorted = sorted)

\* a call that walked the items has returned
HasWalked == pc \in {"text", "structured"}

\* the text assembleText returns for visits of fragments made of letters: a
\* newline for a line break, a blank line for a paragraph break, a blank for a space
RECURSIVE Rendered(_, _)
Rendered(visits, k) ==
    IF k > Len(visits) THEN <<>>
    ELSE (IF visits[k].paragraphBreak THEN <<10, 10>>
          ELSE IF visits[k].lineBreak THEN <<10>>
          ELSE IF visits[k].space THEN <<32>>
          ELSE <<>>)
         \o visits[k].item.text \o Rendered(visits, k + 1)

\* two fragments of size 12 at x = 0, the first at y = 100, the second at y
TwoLines(y) ==
    << Fragment(<<Glyph(0, 100)>>, 0, 100, 12, 0, undefined),
       Fragment(<<Glyph(0, y)>>, 0, y, 12, 0, undefined) >>

\* C6: after the first emitted fragment a line break is signalled iff
\* |y - lastY| > lastFontSize * 0.5, and it is a paragraph break iff
\* |y - lastY| > lastFontSize * 1.8; assembleText prints one newline for the
\* first and one blank line for the second.
BreaksFollowThresholds ==
    HasWalked =>
        /\ \A k \in 1..Len(trace) :
             LET v == trace[k]
                 w == v.before
                 yDelta == Abs(v.item.y - w.lastY)
             IN /\ w.hasContent <=> (k > 1)
                /\ (k > 1) => (w.lastY = trace[k - 1].item.y)
                /\ v.lineBreak <=> (k > 1 /\ 2 * yDelta > w.lastFontSize)
                /\ v.paragraphBreak <=> (v.lineBreak /\ 10 * yDelta > 18 * w.lastFontSize)
        /\ (pc = "text") => (out = Rendered(trace, 1))
        /\ (pc = "text" /\ items = TwoLines(93)) => (out = <<Glyph(0, 100), 10, Glyph(0, 93)>>)
        /\ (pc = "text" /\ items = TwoLines(76)) => (out = <<Glyph(0, 100), 10, 10, Glyph(0, 76)>>)

\* C6 witness: assembleText met a plain line break and a paragraph break
PlainAndParagraphBreak ==
    /\ pc = "text"
    /\ \E k \in 1..Len(trace) : trace[k].lineBreak /\ ~trace[k].paragraphBreak
    /\ \E k \in 1..Len(trace) : trace[k].paragraphBreak

\* xGap, in tenths, and posGap of a visit
XGap10(v) == 10 * v.item.x - (10 * v.before.lastX + v.before.lastWidth10)
PosGap(v) == v.item.x - v.before.lastX

\* C7: on the line of the previously emitted fragment a space is signalled iff
\* xGap < -lastFontSize * 2 or shouldInsertSpace says so; never before the
\* first emitted fragment and never together with a line break.
SpacesFollowGaps ==
    HasWalked =>
        \A k \in 1..Len(trace) :
            LET v == trace[k]
                w == v.before
            IN /\ (k > 1) =>
                    LET prev == trace[k - 1].item
                    IN /\ w.lastX = prev.x
                       /\ w.lastTextLen = Len(prev.text)
                       /\ w.lastHasMetricWidth = (prev.width > 0)
                       /\ w.lastWidth10 = IF prev.width # 0 THEN 10 * prev.width
                                          ELSE Len(prev.text) * w.lastFontSize * 6
               /\ v.space <=>
                    /\ k > 1
                    /\ ~v.lineBreak
                    /\ \/ XGap10(v) < -(20 * w.lastFontSize)
                       \/ shouldInsertSpace(XGap10(v), PosGap(v), w.lastTextLen,
                                            w.lastFontSize, w.lastHasMetricWidth)
               /\ ~(v.space /\ v.lineBreak)
               /\ (k = 1) => ~v.space

\* C7 witness: a space signalled by the overlap rule alone
SpaceByOverlap ==
    /\ HasWalked
    /\ \E k \in 1..Len(trace) :
         /\ trace[k].space
         /\ XGap10(trace[k]) < -(20 * trace[k].before.lastFontSize)
         /\ ~shouldInsertSpace(XGap10(trace[k]), PosGap(trace[k]), trace[k].before.lastTextLen,
                               trace[k].before.lastFontSize, trace[k].before.lastHasMetricWidth)

\* C8: shouldInsertSpace is xGap > fontSize * 0.15 with a metric width and
\* posGap > max(textLen, 1) * fontSize * 0.5 without one.
SpaceClassifier ==
    (pc = "space") =>
        /\ out = IF args.hasMetricWidth
                 THEN 100 * args.xGap > 15 * args.fontSize
                 ELSE 10 * args.posGap
                        > (IF args.textLen >= 1 THEN args.textLen ELSE 1) * args.fontSize * 5
        /\ (args = [xGap |-> 5, posGap |-> 0, textLen |-> 1, fontSize |-> 12,
                    hasMetricWidth |-> TRUE]) => (out = TRUE)
        /\ (args = [xGap |-> 0, posGap |-> 20, textLen |-> 1, fontSize |-> 12,
                    hasMetricWidth |-> FALSE]) => (out = TRUE)

\* C8 witness: shouldInsertSpace(0, 20, 1, 12, false) has returned
SpaceWithoutMetricWidth ==
    /\ pc = "space"
    /\ args = [xGap |-> 0, posGap |-> 20, textLen |-> 1, fontSize |-> 12,
               hasMetricWidth |-> FALSE]
    /\ out = TRUE

\* the fragments with every font size <= 0 replaced by 12
TreatedAsTwelve(its) ==
    [k \in 1..Len(its) |-> IF its[k].fontSize <= 0 THEN [its[k] EXCEPT !.fontSize = 12]
                           ELSE its[k]]

\* C9: a font size <= 0 acts as 12 in every threshold: sortTextItems orders the
\* fragments, and assembleText prints them, as it does for the same fragments
\* with those font sizes set to 12.
NonPositiveFontSizeIsTwelve ==
    /\ HasSorted =>
          order \in { TagsOf(o.entries) : o \in SortOutcomes(TreatedAsTwelve(items)) }
    /\ (pc = "text" /\ Len(items) > 0) =>
          out \in { assembleTextOf(s, opts) : s \in sortTextItems(TreatedAsTwelve(items)) }

\* C10: an empty fragment list gives an empty list or an empty string, whatever
\* the strip option.
EmptyInEmptyOut ==
    (items = <<>>) =>
        /\ pc # "threw"
        /\ (pc = "sorted") => (sorted = <<>>)
        /\ (pc \in {"text", "structured"}) => (out = <<>>)

\* C10 witness: assembleStructuredItems([]) with stripping switched off
EmptyStructuredUnstripped ==
    /\ items = <<>>
    /\ pc = "structured"
    /\ opts = "false"
    /\ out = <<>>

\* C11: on a non-empty list, whatever its geometry, each entry point returns a
\* result and never raises; the regions the detector returns are non-empty,
\* lie inside the list of lines and follow each other without overlap, so the
\* scan always advances and the reorderer reads existing lines only.
EngineIsTotal ==
    (items # <<>> /\ pc # "ready") =>
        /\ pc \in {"sorted", "resorted", "text", "structured"}
        /\ Len(sorted) = Len(items)
        /\ Len(lines) >= 1
        /\ \A k \in 1..Len(lines) : Len(lines[k]) >= 1
        /\ \A r \in 1..Len(regions) :
             /\ 0 <= regions[r].start
             /\ regions[r].start < regions[r].end
             /\ regions[r].end <= Len(lines)
             /\ (r > 1) => (regions[r - 1].end <= regions[r].start)
        /\ (pc = "text") => (Len(trace) >= 1)

\* C11 witness: assembleStructuredItems returned for rows without width whose
\* font size is zero, after a column region was found in them
TotalOnZeroFontRegion ==
    /\ pc = "structured"
    /\ Len(regions) = 1
    /\ \A k \in 1..Len(items) : items[k].fontSize <= 0 /\ items[k].width = 0
    /\ Len(out) >= 1

\* the walk's lines: visit k belongs to the line numbered by the line breaks up to k
LineOfVisit(k) == Cardinality({ q \in 1..k : trace[q].lineBreak })
VisitsOfLine(g) == { k \in 1..Len(trace) : LineOfVisit(k) = g }

\* the text a walk line collects: a blank for each space event, then the
\* fragment's text without its private-use characters
RECURSIVE LineTextFrom(_, _)
LineTextFrom(g, k) ==
    IF k > Len(trace) THEN <<>>
    ELSE (IF LineOfVisit(k) # g THEN <<>>
          ELSE (IF trace[k].space THEN <<32>> ELSE <<>>) \o normalizePUA(trace[k].item.text))
         \o LineTextFrom(g, k + 1)

\* the walk lines that collected some text, in order
KeptLines ==
    LET all == [g \in 1..Len(trace) |-> g - 1]
    IN SeqFilter(all, { g \in 1..Len(trace) : LineTextFrom(g - 1, 1) # <<>> })

\* (bold, italic, link) of a visited fragment and of a returned span
TupleOfVisit(k) ==
    <<detectFontStyle(trace[k].item.fontName).bold,
      detectFontStyle(trace[k].item.fontName).italic, trace[k].link>>
TupleOfSpan(span) == <<span.bold, span.italic, span.link>>

\* the visits of a walk line whose tuple differs from the fragment before them
StartsSpan(g) ==
    { k \in VisitsOfLine(g) :
        (k - 1) \notin VisitsOfLine(g) \/ TupleOfVisit(k) # TupleOfVisit(k - 1) }

\* C12: in assembleStructuredItems a fragment joins the preceding span of its
\* line iff their (bold, italic, link) tuples are equal, so a returned line has
\* one span per change of tuple, adjacent spans differ in their tuple, and the
\* spans of a line hold the text of that line only.
SpansMergeByStyle ==
    (pc = "structured") =>
        /\ Len(out) = Len(KeptLines)
        /\ \A j \in 1..Len(out) :
             /\ Len(out[j].spans) = Cardinality(StartsSpan(KeptLines[j]))
             /\ \A m \in 1..(Len(out[j].spans) - 1) :
                  TupleOfSpan(out[j].spans[m]) # TupleOfSpan(out[j].spans[m + 1])
             /\ (opts = "false") =>
                  /\ out[j].text = LineTextFrom(KeptLines[j], 1)
                  /\ Flatten([m \in 1..Len(out[j].spans) |-> out[j].spans[m].text]) = out[j].text

\* the line break that ended walk line g was a paragraph break
EndsParagraph(g) ==
    \E k \in 1..Len(trace) :
        trace[k].lineBreak /\ trace[k].paragraphBreak /\ LineOfVisit(k) = g + 1

\* C13: a returned line has isBlankAfter iff the line break after it was a
\* paragraph break; every paragraph break of the walk shows as the flag of a
\* returned line; the last returned line has isBlankAfter = false.
BlankAfterMarksParagraphs ==
    (pc = "structured") =>
        /\ Len(out) = Len(KeptLines)
        /\ \A j \in 1..Len(out) : out[j].isBlankAfter <=> EndsParagraph(KeptLines[j])
        /\ \A k \in 1..Len(trace) :
             trace[k].paragraphBreak =>
                 \E j \in 1..Len(out) :
                     KeptLines[j] = LineOfVisit(k) - 1 /\ out[j].isBlankAfter
        /\ (Len(out) > 0) => ~out[Len(out)].isBlankAfter

\* the rectangles of links, by position, that contain the centre and baseline of a fragment
Containing(item) ==
    { n \in 1..Len(links) :
        /\ 2 * links[n].x1 <= 2 * item.x + item.width
        /\ 2 * item.x + item.width <= 2 * links[n].x2
        /\ links[n].y1 <= item.y
        /\ item.y <= links[n].y2 }

\* C14: the link of a fragment is the uri of the first rectangle, in list
\* order, that contains its horizontal centre and its baseline, edges included,
\* and no link when no rectangle does; it is a function of the fragment and the
\* list alone.
FirstContainingLinkWins ==
    (pc = "structured") =>
        \A k \in 1..Len(trace) :
            LET hits == Containing(trace[k].item)
            IN /\ (hits = {}) => (trace[k].link = NoLink)
               /\ (hits # {}) =>
                    \E n \in hits : /\ \A q \in hits : n <= q
                                    /\ trace[k].link = links[n].uri

\* C14 witness: a fragment whose centre lies on the left edge of the second of
\* two rectangles that contain it got the uri of the first
FirstOfTwoLinks ==
    /\ pc = "structured"
    /\ links = <<LinkLeft, LinkTight>>
    /\ \E k \in 1..Len(trace) :
         /\ Containing(trace[k].item) = {1, 2}
         /\ 2 * trace[k].item.x + trace[k].item.width = 2 * LinkTight.x1
         /\ trace[k].link = "u2"

\* the end of the open anchor a string starts with: the position of its last
\* digit, 0 if it does not start with a backslash, letters or underscores, digits
AnchorEnd(s) ==
    LET l == SpanEnd(s, 2, AnchorLetters)
        d == SpanEnd(s, l, Digits)
    IN IF Len(s) >= 1 /\ s[1] = 92 /\ l > 2 /\ d > l THEN d - 1 ELSE 0

After(s, n) == SubSeq(s, n + 1, Len(s))

\* C15: an open anchor at the start of a string is removed when its digits are
\* followed by whitespace, a letter or the end of the string (and with the
\* backslash that follows it, when one does); followed by anything else it stays
\* whole, no shorter prefix of it being removed. \date14/1/2025 is unchanged and
\* \date1 4/1/2025 becomes " 4/1/2025".
OpenAnchorNeedsDelimiter ==
    (pc = "stripped") =>
        LET s == args.text
            n == AnchorEnd(s)
        IN /\ (n > 0 /\ (n = Len(s) \/ s[n + 1] \in Whitespace \cup AsciiLetters)) =>
                (out = stripFormPlaceholderText(After(s, n)))
           /\ (n > 0 /\ n < Len(s) /\ s[n + 1] = 92) =>
                (out = stripFormPlaceholderText(After(s, n + 1)))
           /\ (n > 0 /\ n < Len(s) /\ s[n + 1] \notin Whitespace \cup AsciiLetters \cup {92}) =>
                (out = SubSeq(s, 1, n) \o stripFormPlaceholderText(After(s, n)))
           /\ (s = DateGlued) => (out = DateGlued)
           /\ (s = DateSpaced) => (out = After(DateSpaced, 6))

\* C15 witness: \date1 4/1/2025 lost the anchor and kept the blank and the date
SpacedDateKept ==
    /\ pc = "stripped"
    /\ args.text = DateSpaced
    /\ out = <<32, 52, 47, 49, 47, 50, 48, 50, 53>>

\* C16: normalizePUA replaces each character of U+E000..U+F8FF the table maps
\* by its image, deletes the others of that range, and keeps every other
\* character in place; the result has no character of the range, and a string
\* without one is returned as it is.
PUAIsNormalized ==
    (pc = "normalized") =>
        LET s == args.text
            kept == SeqFilter(s, { p \in 1..Len(s) :
                                     s[p] \notin 57344..63743 \/ s[p] \in DOMAIN PUA_TO_UNICODE })
        IN /\ Len(out) = Len(kept)
           /\ \A p \in 1..Len(kept) :
                out[p] = IF kept[p] \in 57344..63743 THEN PUA_TO_UNICODE[kept[p]] ELSE kept[p]
           /\ \A p \in 1..Len(out) : out[p] \notin 57344..63743
           /\ (\A p \in 1..Len(s) : s[p] \notin 57344..63743) => (out = s)
           /\ (s = <<61623>>) => (out = <<8226>>)

\* C16 witness: a letter, the Symbol bullet and an unmapped character
BulletMappedUnmappedDeleted ==
    /\ pc = "normalized"
    /\ args.text = <<100, 61623, 57344, 47>>
    /\ out = <<100, 8226, 47>>

\* the walk joined all its fragments on one line without a space, and none of
\* them holds a private-use character
JoinedWithoutSpace ==
    /\ Len(trace) >= 1
    /\ \A k \in 1..Len(trace) :
         /\ ~trace[k].lineBreak
         /\ ~trace[k].space
         /\ \A p \in 1..Len(trace[k].item.text) : trace[k].item.text[p] \notin 57344..63743

\* the texts of the visited fragments, concatenated
JoinedText == Flatten([k \in 1..Len(trace) |-> trace[k].item.text])

\* C17: with stripping enabled, placeholders are removed from the concatenated
\* text: for fragments joined on one line without a space, assembleText returns
\* the concatenation without its placeholders, and assembleStructuredItems
\* returns a line whose text and whose span texts, taken together, are that
\* string; an anchor split over two fragments is removed from both.
StrippedAfterConcatenation ==
    (JoinedWithoutSpace /\ opts # "false") =>
        /\ (pc = "text") => (out = stripFormPlaceholderText(JoinedText))
        /\ (pc = "structured") =>
             \A j \in 1..Len(out) :
                 /\ out[j].text = stripFormPlaceholderText(JoinedText)
                 /\ Flatten([m \in 1..Len(out[j].spans) |-> out[j].spans[m].text]) = out[j].text

\* C18: the string assembleText returns has no two adjacent whitespace
\* characters other than newlines, no blank before a newline, no three newlines
\* in a row, and no whitespace at its start or end.
CleanTextIsTidy ==
    (pc = "text") =>
        /\ \A p \in 1..(Len(out) - 1) :
             ~(out[p] \in Whitespace \ {10} /\ out[p + 1] \in Whitespace \ {10})
        /\ \A p \in 1..(Len(out) - 1) : ~(out[p] = 32 /\ out[p + 1] = 10)
        /\ \A p \in 1..(Len(out) - 2) : ~(out[p] = 10 /\ out[p + 1] = 10 /\ out[p + 2] = 10)
        /\ (out # <<>>) => (out[1] \notin Whitespace /\ out[Len(out)] \notin Whitespace)

\* C18 witness: two paragraph breaks in a row around a line that collected no
\* text left one blank line
OneBlankLineForTwoBreaks ==
    /\ pc = "text"
    /\ Len(trace) = 3
    /\ trace[2].paragraphBreak /\ trace[3].paragraphBreak
    /\ trace[2].item.text = <<57344>>
    /\ out = <<97, 10, 10, 97>>

\* C19: no call changes the caller's array: it keeps its length, its order and
\* every field of every fragment.
InputIsNeverMutated == [][items' = items]_vars

\* C19 witness: assembleText returned after a column region was split and its
\* fragments were emitted in another order than they stand in the input
ReorderedOnFreshArrays ==
    /\ pc = "text"
    /\ Len(regions) >= 1
    /\ sorted # items
    /\ Len(sorted) = Len(items)

\* the fragments in the order the clusterer walks them, and the line each lands in
YOrder == SortByYDesc(Tag(items))
LineOfTag(t) ==
    CHOOSE g \in 1..Len(lines) : \E a \in 1..Len(lines[g]) : lines[g][a].i = t

\* the clusterer starts a line at the k-th fragment of its walk
NewLineAt(k) == LineOfTag(YOrder[k].i) # LineOfTag(YOrder[k - 1].i)

\* C20 as stated: a fragment starts a new line iff its y-distance from its
\* predecessor in y-order exceeds max(prevFontSize, 12) * 0.5.
ClusterThresholdHasFloor ==
    (pc = "sorted") =>
        \A k \in 2..Len(items) :
            NewLineAt(k) <=>
                2 * Abs(YOrder[k].item.y - YOrder[k - 1].item.y)
                    > (IF YOrder[k - 1].item.fontSize > 12 THEN YOrder[k - 1].item.fontSize ELSE 12)

\* C20 amended: a fragment starts a new line iff its y-distance from its
\* predecessor in y-order exceeds prevFontSize * 0.5, with 12 in place of a
\* font size <= 0; it then lies in the line after its predecessor's, and
\* otherwise in the same line.
ClusterThresholdIsPrevFontSize ==
    (pc = "sorted") =>
        /\ (Len(items) >= 1) => (LineOfTag(YOrder[1].i) = 1)
        /\ \A k \in 2..Len(items) :
             /\ NewLineAt(k) <=>
                  2 * Abs(YOrder[k].item.y - YOrder[k - 1].item.y)
                      > (IF YOrder[k - 1].item.fontSize > 0 THEN YOrder[k - 1].item.fontSize ELSE 12)
             /\ LineOfTag(YOrder[k].i) =
                  LineOfTag(YOrder[k - 1].i) + (IF NewLineAt(k) THEN 1 ELSE 0)

\* C20 witness: a fragment 5 below one of font size 2 started a new line, and
\* a fragment 5 below one of font size 0 joined its line
SmallFontStartsLine ==
    /\ pc = "sorted"
    /\ Len(items) = 3
    /\ YOrder[1].item.fontSize = 2
    /\ YOrder[1].item.y - YOrder[2].item.y = 5
    /\ NewLineAt(2)
    /\ YOrder[2].item.fontSize = 0
    /\ YOrder[2].item.y - YOrder[3].item.y = 5
    /\ ~NewLineAt(3)

\* the places, in a line after phase 3, of the fragments of text object id
PlacesOfObject(line, id) == { k \in 1..Len(line) : line[k].item.objId = id }

\* the text-object ids that occur in a line
ObjectsOf(line) == { line[k].item.objId : k \in 1..Len(line) } \ {undefined}

\* C21: in each line after the in-line ordering the fragments of one text
\* object stand next to each other, with no other fragment between them, in
\* their arrival order, and the text objects follow each other by their least x.
ObjectRunsContiguous ==
    (pc = "sorted") =>
        \A g \in 1..Len(lines) :
            LET line == lines[g] IN
            \A id \in ObjectsOf(line) :
                /\ \A a, b \in PlacesOfObject(line, id) :
                     /\ \A k \in a..b : k \in PlacesOfObject(line, id)
                     /\ (a < b) => (line[a].i < line[b].i)
                /\ \A other \in ObjectsOf(line) :
                     (ObjMinX(line, id) < ObjMinX(line, other)) =>
                         \A a \in PlacesOfObject(line, id), b \in PlacesOfObject(line, other) :
                             a < b

\* C22: the regions lie inside the list of lines, none is empty, they are
\* listed in increasing line order and no line belongs to two of them: each
\* region starts, also after its backward extension, at or after the end of
\* the region before it.
RegionsDisjointInLineOrder ==
    (pc = "sorted") =>
        /\ \A r \in 1..Len(regions) :
             /\ 0 <= regions[r].start
             /\ regions[r].start < regions[r].end
             /\ regions[r].end <= Len(lines)
        /\ \A r \in 2..Len(regions) : regions[r].start >= regions[r - 1].end
        /\ \A q, r \in 1..Len(regions) :
             (q < r) => /\ RowsOf(regions[q]) \cap RowsOf(regions[r]) = {}
                        /\ \A a \in RowsOf(regions[q]), b \in RowsOf(regions[r]) : a < b

\* C22 witness: the second of two regions starts where the first ends, and the
\* last line of the first, a line without a gap on one side of the second
\* region's boundary, is one its backward extension would have taken
SecondRegionStopsAtFirst ==
    /\ pc = "sorted"
    /\ Len(regions) = 2
    /\ regions[2].start = regions[1].end
    /\ regions[2].anchor = regions[2].start
    /\ ~findDominantColumnGap(At(lines, regions[2].start - 1)).found
    /\ lineIsOneSide(At(lines, regions[2].start - 1), regions[2].sumRX, regions[2].count)

\* the zero-based indices of the lines that lie in some region
RegionLines == UNION { RowsOf(regions[r]) : r \in 1..Len(regions) }

\* every fragment of line j1 is returned before every fragment of line j2
LineBefore(j1, j2) ==
    \A a \in 1..Len(At(lines, j1)), b \in 1..Len(At(lines, j2)) :
        PlaceOf(At(lines, j1)[a].i) < PlaceOf(At(lines, j2)[b].i)

\* C23: a line outside every region is returned whole, its fragments next to
\* each other in their in-line order, after every line above it and before
\* every line below it, whether those lie in a region or not.
LinesOutsideRegionsPassThrough ==
    (pc = "sorted") =>
        \A j \in (0..(Len(lines) - 1)) \ RegionLines :
            /\ \A a \in 1..(Len(At(lines, j)) - 1) :
                 PlaceOf(At(lines, j)[a + 1].i) = PlaceOf(At(lines, j)[a].i) + 1
            /\ \A j2 \in 0..(Len(lines) - 1) :
                 /\ (j < j2) => LineBefore(j, j2)
                 /\ (j2 < j) => LineBefore(j2, j)

\* C23 witness: a header line across both columns stays in front of a region
\* of three rows whose fragments were reordered column-first
HeaderAboveReorderedRegion ==
    /\ pc = "sorted"
    /\ Len(lines) = 4
    /\ RegionLines = {1, 2, 3}
    /\ Len(At(lines, 0)) = 1
    /\ order[1] = At(lines, 0)[1].i
    /\ sorted # ItemsOf(Flatten(lines))

\* the x at which the right column of gap line j starts
RightXOf(j) == findDominantColumnGap(At(lines, j)).rightX

\* the sum and the number of the rightX of the gap lines from line a to line b
RECURSIVE SumRightX(_, _)
SumRightX(a, b) ==
    IF a > b THEN 0
    ELSE (IF a \in GapLines THEN RightXOf(a) ELSE 0) + SumRightX(a + 1, b)
CountRightX(a, b) == Cardinality(GapLines \cap (a..b))

\* the lines without a gap that the forward growth of a region took in
BridgedLines(region) == ((region.anchor + 1)..(region.end - 1)) \ GapLines

\* the number of lines without a gap directly above line j, down to line a
RECURSIVE GaplessAbove(_, _)
GaplessAbove(j, a) ==
    IF j - 1 < a \/ (j - 1) \in GapLines THEN 0 ELSE 1 + GaplessAbove(j - 1, a)

\* line j lies left (right) of the boundary that was running when it was bridged
LeftOfRunning(region, j) ==
    \A k \in 1..Len(At(lines, j)) :
        itemRightEdge10(At(lines, j)[k]) * CountRightX(region.anchor, j - 1)
            < 10 * SumRightX(region.anchor, j - 1)
RightOfRunning(region, j) ==
    \A k \in 1..Len(At(lines, j)) :
        At(lines, j)[k].item.x * CountRightX(region.anchor, j - 1)
            >= SumRightX(region.anchor, j - 1)

\* the conditions under which the forward growth takes in a line without a gap
BridgedOnlyWhenOneSided ==
    (pc = "sorted") =>
        \A r \in 1..Len(regions) :
            \A j \in BridgedLines(regions[r]) :
                /\ 2 * Abs(At(lines, j)[1].item.y - At(lines, j - 1)[1].item.y)
                     <= 5 * OrElse(At(lines, j - 1)[1].item.fontSize, 12)
                /\ LeftOfRunning(regions[r], j) \/ RightOfRunning(regions[r], j)
                /\ GaplessAbove(j, regions[r].anchor) < MAX_GAPLESS_BRIDGE

\* no region holds more than 3 lines without a gap in a row
AtMostThreeGaplessInARow ==
    (pc = "sorted") =>
        \A r \in 1..Len(regions) :
            \A j \in RowsOf(regions[r]) \ GapLines :
                GaplessAbove(j, regions[r].start) < MAX_GAPLESS_BRIDGE

\* a bridged line is returned whole, with the column it lies in: left of the
\* running boundary with the left parts, right of it with the right parts,
\* directly behind the part of the nearest row above that has such a part
BridgedLineKeepsItsColumn ==
    (pc = "sorted") =>
        \A r \in 1..Len(regions) :
            \A j \in BridgedLines(regions[r]) :
                LET region == regions[r]
                    line == At(lines, j)
                    isLeft == LeftOfRunning(region, j)
                    above == { q \in region.start..(j - 1) :
                                 Len(SplitPart(At(lines, q), region, isLeft)) > 0 }
                    nearest == CHOOSE q \in above : \A z \in above : z <= q
                    part == SplitPart(At(lines, nearest), region, isLeft)
                IN /\ \A a \in 1..(Len(line) - 1) :
                        PlaceOf(line[a + 1].i) = PlaceOf(line[a].i) + 1
                   /\ above # {}
                   /\ PlaceOf(line[1].i) = PlaceOf(part[Len(part)].i) + 1

\* C24: a line without a qualifying gap is taken into a growing region only if
\* it is at most fontSize * 2.5 below the line before it, lies on one side of
\* the running boundary and fewer than 3 such lines precede it in a row; no
\* region holds more than 3 of them in a row; and a bridged line is returned
\* with its own column, directly after the row above it in that column.
GaplessLinesBridgedIntoTheirColumn ==
    /\ BridgedOnlyWhenOneSided
    /\ AtMostThreeGaplessInARow
    /\ BridgedLineKeepsItsColumn

\* the number of lines without a gap directly below line q, up to line b
RECURSIVE GaplessBelow(_, _)
GaplessBelow(q, b) ==
    IF q + 1 > b \/ (q + 1) \in GapLines THEN 0 ELSE 1 + GaplessBelow(q + 1, b)

\* line q above the anchor of a region is one the backward extension takes: a
\* gap line whose rightX is within the anchor's fontSize * 3 of the boundary,
\* or a line without a gap on one side of the boundary, the fourth in a row excepted
TakenBackward(region, q) ==
    LET tolerance == 3 * OrElse(At(lines, region.anchor)[1].item.fontSize, 12)
    IN IF q \in GapLines
       THEN Abs(RightXOf(q) * region.count - region.sumRX) <= tolerance * region.count
       ELSE /\ lineIsOneSide(At(lines, q), region.sumRX, region.count)
            /\ GaplessBelow(q, region.anchor) < MAX_GAPLESS_BRIDGE

\* C25: the start of a region lies at or above its anchor line and at or below
\* the end of the region before it; every line from the start to the anchor is
\* a gap line within the tolerance of the boundary or a one-sided line without
\* a gap, at most 3 of these in a row; the start is the earliest such line; and
\* a gap row taken in this way is returned column-first with the run.
StartExtendsBackward ==
    (pc = "sorted") =>
        \A r \in 1..Len(regions) :
            LET region == regions[r]
                minStart == IF r > 1 THEN regions[r - 1].end ELSE 0
            IN /\ minStart <= region.start
               /\ region.start <= region.anchor
               /\ region.anchor \in GapLines
               /\ \A q \in region.start..(region.anchor - 1) : TakenBackward(region, q)
               /\ (region.start > minStart) => ~TakenBackward(region, region.start - 1)
               /\ \A q \in (region.start..(region.anchor - 1)) \cap GapLines :
                    \A j \in RowsOf(region) :
                        \A a \in 1..Len(At(lines, q)), b \in 1..Len(At(lines, j)) :
                            LET e1 == At(lines, q)[a]
                                e2 == At(lines, j)[b]
                                left1 == IsLeftOfSplit(e1, At(lines, q), region)
                                left2 == IsLeftOfSplit(e2, At(lines, j), region)
                            IN /\ (left1 /\ ~left2) => PlaceOf(e1.i) < PlaceOf(e2.i)
                               /\ (~left1 /\ left2) => PlaceOf(e2.i) < PlaceOf(e1.i)
                               /\ (left1 = left2 /\ q < j) => PlaceOf(e1.i) < PlaceOf(e2.i)

\* C25 witness: a header row of font size 6 whose own tolerance does not reach
\* the rows below it was taken into the region of the three gap rows that
\* follow, and its right fragment is returned after their left fragments
HeaderRowJoinsRun ==
    /\ pc = "sorted"
    /\ Len(lines) = 4
    /\ Len(regions) = 1
    /\ regions[1].anchor = 1
    /\ regions[1].start = 0
    /\ GapLines = {0, 1, 2, 3}
    /\ At(lines, 0)[1].item.fontSize = 6
    /\ PlaceOf(At(lines, 0)[2].i) > PlaceOf(At(lines, 3)[1].i)

\* the lines array assembleText builds over the visits of the walk, and the
\* places in it of the lines that are not empty
AccumulatedLines == TextLines(trace)
NonEmptyPlaces == { p \in 1..Len(AccumulatedLines) : AccumulatedLines[p] # <<>> }
NonEmptyLines == SeqFilter(AccumulatedLines, NonEmptyPlaces)

\* the place in the lines array of its n-th line that is not empty
PlaceOfNonEmpty(n) ==
    CHOOSE p \in NonEmptyPlaces : Cardinality({ q \in NonEmptyPlaces : q <= p }) = n

\* C26: with stripping disabled assembleStructuredItems returns one line for
\* each non-empty line assembleText accumulates over the same walk, with the
\* same text, and with isBlankAfter iff assembleText put a blank line after it.
SinksAgree ==
    (pc = "structured" /\ opts = "false") =>
        /\ Len(out) = Len(NonEmptyLines)
        /\ \A n \in 1..Len(out) :
             /\ out[n].text = NonEmptyLines[n]
             /\ out[n].isBlankAfter <=>
                  /\ PlaceOfNonEmpty(n) < Len(AccumulatedLines)
                  /\ AccumulatedLines[PlaceOfNonEmpty(n) + 1] = <<>>

\* C27: without a column region, and every fragment having text, the walk
\* signals a line break before a fragment iff the clusterer put it in another
\* line than the fragment returned before it.
WalkLinesAreClusterLines ==
    (pc = "text" /\ regions = <<>> /\ Len(trace) = Len(sorted)) =>
        \A k \in 2..Len(trace) :
            trace[k].lineBreak <=> (LineOfTag(order[k]) # LineOfTag(order[k - 1]))

\* the texts of the spans of a returned line, one after the other
SpanTexts(line) == Flatten([m \in 1..Len(line.spans) |-> line.spans[m].text])

\* C28: the text of every line assembleStructuredItems returns is the
\* concatenation of the texts of its spans, with stripping enabled or disabled.
LineTextIsSpanTexts ==
    (pc = "structured") => \A j \in 1..Len(out) : out[j].text = SpanTexts(out[j])

\* C29: a string isFormPlaceholderItem accepts is one stripFormPlaceholderText
\* reduces to whitespace.
ClassifierAndStripperAgree ==
    (pc = "classified" /\ out = TRUE) =>
        \A p \in 1..Len(stripFormPlaceholderText(args.text)) :
            stripFormPlaceholderText(args.text)[p] \in Whitespace

\* no fragment carries a text-object id and no two fragments share a position
DistinctPlainPositions ==
    /\ \A k \in 1..Len(items) : items[k].objId = undefined
    /\ \A a, b \in 1..Len(items) :
         (a # b) => (items[a].x # items[b].x \/ items[a].y # items[b].y)

\* C30: for fragments without text-object ids at pairwise distinct positions
\* sortTextItems returns the same sequence for every arrival order of the list.
ArrivalOrderIsIrrelevant ==
    (pc = "sorted" /\ DistinctPlainPositions) =>
        \A arrival \in AllOrders(items) : sortTextItems(arrival) = {sorted}

====
